---- MODULE Spec2Model ----
(***************************************************************************)
(* Vault Transit client of the blog API (api/services/vault.js), the PII   *)
(* field codec built on it (api/services/piiEncryption.js) and the User    *)
(* model's save hook (api/models/User.js).                                 *)
(*                                                                         *)
(* Time is counted in seconds.  A JavaScript string is a record: a string  *)
(* that does not start with "vault:" is Str(FALSE, body), the string       *)
(* "vault:" + body that is no engine envelope is Str(TRUE, body), and the  *)
(* envelope "vault:v<ver>:<payload>" the engine made from plaintext pt is  *)
(* Env(ver, pt).  An argument or a result is always a sequence of values;  *)
(* the single-value operations use sequences of length one.               *)
(***************************************************************************)
EXTENDS Integers, Sequences, FiniteSets, TLC

VARIABLES
    client,     \* the VaultClient singleton: configured, roleId, secretId, token, tokenExpiry
    now,        \* Date.now(), in seconds
    leases,     \* engine: leases[id] is the instant token id expires at the engine
    keyVersion, \* engine: newest version of the transit key
    pc,         \* per caller: idle, login, crypto, done, failed; hung when the answer
                \* it waits for never comes
    op,         \* per caller: the client method being run
    arg,        \* per caller: its argument
    res,        \* per caller: its return value once done, the error of a failed batch item
    wire,       \* per caller: the request awaiting its response
    sent,       \* per caller: kinds of the requests sent by the current call
    raced,      \* per caller: its renewal overlapped another caller's renewal
    rejected,   \* per caller: the engine or the network failed a request of the call
    lastLogin,  \* the login response processed last: its token, lease duration and instant
    tokenTtl,   \* engine: token_ttl of the AppRole role
    db,         \* the users collection: the stored email and fullName of each document
    job,        \* per caller: what awaits the client call or the store (a save, a rewrap
                \* of a document, a write in flight)
    run         \* the rewrapCollection run: its state, cursor, batch and count; and, to
                \* state properties: n the runs started, kv the key version and snap the
                \* store at its start, saves the calls of doc.save(), persisted the
                \* documents the store has written for it, prev how the run before
                \* ended and the key version it started with, handed the documents
                \* given to _rewrapBatch

storeVars == <<db, job, run>>

vars == <<client, now, leases, keyVersion, pc, op, arg, res, wire, sent, raced,
          rejected, lastLogin, tokenTtl, db, job, run>>

----------------------------------------------------------------------------
(* Bounds of the model *)

MaxTime == 600
TickStep == 150
MaxLogins == 3
MaxBatch == 2
MaxDocs == 2
MaxKeyVersion == 2
MaxRuns == 2
MaxApply == 2

Callers == {"c1", "c2"}
DocTasks == {"d1", "d2"}
Tasks == Callers \cup DocTasks
LeaseDurations == {200, 600}

----------------------------------------------------------------------------
(* Values *)

Null == [t |-> "null"]
Str(pre, body) == [t |-> "str", pre |-> pre, body |-> body]
Env(ver, pt) == [t |-> "env", ver |-> ver, pt |-> pt]
ErrItem == [t |-> "err"]

\* What a field of a plain object can hold besides a string and null: nothing
\* (reading it gives undefined), or a number
Undefined == [t |-> "undefined"]
Num(n) == [t |-> "num", n |-> n]

\* value.startsWith('vault:')
StartsWithVault(v) == v.t = "env" \/ (v.t = "str" /\ v.pre)

\* JavaScript truthiness of a field value: null, undefined, "" and 0 are falsy
Truthy(v) ==
    \/ v.t = "env"
    \/ (v.t = "str" /\ (v.pre \/ v.body # ""))
    \/ (v.t = "num" /\ v.n # 0)

IsString(v) == v.t \in {"str", "env"}

\* The full three-part envelope format: marker, key version, payload
IsEnvelope(v) == v.t = "env"

\* String(v): a string is itself, null is the string "null"
JsString(v) == IF v.t = "null" THEN Str(FALSE, "null") ELSE v

\* The UTF-8 encoding of a string, read back: a lone surrogate has no encoding
\* and is written as U+FFFD
Utf8(v) == IF v.t = "str" /\ v.body = "\\uD800" THEN [v EXCEPT !.body = "\\uFFFD"] ELSE v

\* Buffer.from(String(v)).toString('base64') and Buffer.from(b, 'base64').toString('utf8')
ToBase64(v) == [t |-> "b64", of |-> Utf8(JsString(v))]
FromBase64(b) == b.of

----------------------------------------------------------------------------
(* The session *)

SafetyMargin == 300

NoToken == [kind |-> "none", id |-> 0]
StaticToken == [kind |-> "static", id |-> 0]
LeaseToken(id) == [kind |-> "lease", id |-> id]

ExpiryNull == [k |-> "null", v |-> 0]
ExpiryInfinity == [k |-> "inf", v |-> 0]
ExpiryAt(n) == [k |-> "num", v |-> n]

\* new VaultClient(): "" stands for an unset or empty environment variable
UsableRole(env) ==
    /\ env.VAULT_ROLE_ID # "" /\ env.VAULT_SECRET_ID # ""
    /\ env.VAULT_ROLE_ID # "placeholder" /\ env.VAULT_SECRET_ID # "placeholder"

Constructor(env) ==
    IF env.VAULT_TOKEN # ""
    THEN [configured |-> TRUE, roleId |-> env.VAULT_ROLE_ID, secretId |-> env.VAULT_SECRET_ID,
          token |-> StaticToken, tokenExpiry |-> ExpiryInfinity]
    ELSE IF UsableRole(env)
    THEN [configured |-> TRUE, roleId |-> env.VAULT_ROLE_ID, secretId |-> env.VAULT_SECRET_ID,
          token |-> NoToken, tokenExpiry |-> ExpiryNull]
    ELSE [configured |-> FALSE, roleId |-> env.VAULT_ROLE_ID, secretId |-> env.VAULT_SECRET_ID,
          token |-> NoToken, tokenExpiry |-> ExpiryNull]

\* A test that knows no never-expiring token: an expiry that is not a number
\* counts as reached
NeedsLoginNoSentinel(cl, t) ==
    cl.token.kind = "none" \/ cl.tokenExpiry.k # "num" \/ t >= cl.tokenExpiry.v

\* _ensureToken: whether it calls _authenticate.  Date.now() >= null is true.
NeedsLogin(cl, t) ==
    /\ cl.tokenExpiry.k # "inf"
    /\ (cl.token.kind = "none" \/ cl.tokenExpiry.k = "null" \/ t >= cl.tokenExpiry.v)

\* A renewal that takes the lease duration whole
AuthenticateNoMargin(cl, resp, t) ==
    [cl EXCEPT !.token = resp.token, !.tokenExpiry = ExpiryAt(t + resp.ttl)]

\* A renewal that keeps a token already held
AuthenticateFirstWins(cl, resp, t) ==
    IF cl.token.kind = "none"
    THEN [cl EXCEPT !.token = resp.token,
                    !.tokenExpiry = ExpiryAt(t + (resp.ttl - SafetyMargin))]
    ELSE cl

\* _authenticate, after the login response: the token and its expiry
Authenticate(cl, resp, t) ==
    [cl EXCEPT !.token = resp.token,
               !.tokenExpiry = ExpiryAt(t + (resp.ttl - SafetyMargin))]

\* A failed renewal that drops the token held
AuthenticateRejectedResets(cl) == [cl EXCEPT !.token = NoToken, !.tokenExpiry = ExpiryNull]

\* _authenticate when the login round trip rejects: the await throws before
\* this.token or this.tokenExpiry is assigned
AuthenticateRejected(cl) == cl

----------------------------------------------------------------------------
(* The secrets engine, as the client's requests use it *)

EngineRoleId == "role-id"
EngineSecretId == "secret-id"

\* POST /v1/auth/approle/login answers 200 only for the role's credentials
EngineLoginOk(roleId, secretId) == roleId = EngineRoleId /\ secretId = EngineSecretId

\* Whether the engine accepts the X-Vault-Token of a request at instant t
EngineTokenValid(tok, t) ==
    CASE tok.kind = "static" -> TRUE
      [] tok.kind = "lease" -> tok.id \in 1..Len(leases) /\ t < leases[tok.id]
      [] OTHER -> FALSE

\* transit/encrypt, transit/decrypt and transit/rewrap of one item
EngineEncryptItem(b) == Env(keyVersion, FromBase64(b))
EngineDecryptItem(v) == IF IsEnvelope(v) /\ v.ver <= keyVersion THEN ToBase64(v.pt) ELSE ErrItem
EngineRewrapItem(v) == IF IsEnvelope(v) /\ v.ver <= keyVersion THEN Env(keyVersion, v.pt) ELSE ErrItem

EngineItem(kind, v) ==
    CASE kind = "encrypt" -> EngineEncryptItem(v)
      [] kind = "decrypt" -> EngineDecryptItem(v)
      [] kind = "rewrap" -> EngineRewrapItem(v)
      [] OTHER -> ErrItem

EngineItems(kind, body) == [i \in 1..Len(body) |-> EngineItem(kind, body[i])]

----------------------------------------------------------------------------
(* The client's methods *)

Methods == {"encrypt", "decrypt", "encryptBatch", "decryptBatch", "rewrap", "healthCheck"}

\* Only the single-value methods guarded
ChecksConfiguredSingleOnly(o) == o \in {"encrypt", "decrypt"}

\* The methods that start with: if (!this.configured) return <input>
ChecksConfigured(o) == o \in {"encrypt", "decrypt", "encryptBatch", "decryptBatch"}

\* The methods that call _ensureToken
CallsEnsureToken(o) == o \in {"encrypt", "decrypt", "encryptBatch", "decryptBatch", "rewrap"}

\* decrypt, decryptBatch: ct && ct.startsWith('vault:')
IsVaultEntry(v) == Truthy(v) /\ StartsWithVault(v)

\* decryptBatch: the positions pushed to vaultEntries, in order
VaultIndexes(a) ==
    LET F[i \in 0..Len(a)] ==
            IF i = 0 THEN <<>>
            ELSE IF IsVaultEntry(a[i]) THEN Append(F[i - 1], i) ELSE F[i - 1]
    IN F[Len(a)]

Returns(r) == [ret |-> TRUE, res |-> r]
Requests(kind, batch, body) == [ret |-> FALSE, kind |-> kind, batch |-> batch, body |-> body]

\* What a method does once _ensureToken has returned: it returns, or sends one request
AfterEnsure(o, a) ==
    CASE o = "encrypt" -> Requests("encrypt", FALSE, <<ToBase64(a[1])>>)
      [] o = "decrypt" ->
            IF ~IsVaultEntry(a[1]) THEN Returns(a) ELSE Requests("decrypt", FALSE, a)
      [] o = "encryptBatch" ->
            Requests("encrypt", TRUE, [i \in 1..Len(a) |-> ToBase64(a[i])])
      [] o = "decryptBatch" ->
            LET idx == VaultIndexes(a)
            IN IF Len(idx) = 0 THEN Returns(a)
               ELSE Requests("decrypt", TRUE, [k \in 1..Len(idx) |-> a[idx[k]]])
      [] o = "rewrap" -> Requests("rewrap", FALSE, a)

HasError(items) == \E i \in 1..Len(items) : items[i] = ErrItem

\* decryptBatch: results[vaultEntries[i].index] = decoded plaintext, the rest passed through
Scatter(a, items) ==
    LET idx == VaultIndexes(a)
    IN [i \in 1..Len(a) |->
            IF \E k \in 1..Len(idx) : idx[k] = i
            THEN FromBase64(items[CHOOSE k \in 1..Len(idx) : idx[k] = i])
            ELSE a[i]]

\* The batch methods throw on the first item of batch_results that has an error:
\* new Error(`Vault batch ... error: ${r.error}`) carries the engine's text only
ItemError(items) ==
    [t |-> "error",
     cause |-> items[CHOOSE i \in 1..Len(items) :
                        items[i] = ErrItem /\ \A j \in 1..(i - 1) : items[j] # ErrItem]]

\* The value a method returns from the items of a successful response
MethodResult(o, a, items) ==
    CASE o = "encrypt" -> <<items[1]>>
      [] o = "decrypt" -> <<FromBase64(items[1])>>
      [] o = "encryptBatch" -> items
      [] o = "decryptBatch" -> Scatter(a, items)
      [] o = "rewrap" -> <<items[1]>>

----------------------------------------------------------------------------
(* The client's steps: a call runs up to its first network round trip, and *)
(* resumes when the response arrives.                                      *)

NoWire == [kind |-> "none"]
NoJob == [kind |-> "none"]
NoPrev == [st |-> "none", kv |-> 0]
NoRun == [st |-> "none", size |-> 0, pos |-> 0, batch |-> <<>>, next |-> 0, last |-> FALSE,
          processed |-> 0, n |-> 0, kv |-> 0, saves |-> 0, persisted |-> 0, snap |-> <<>>,
          prev |-> NoPrev, handed |-> <<>>]
NoLogin == [token |-> NoToken, ttl |-> 0, at |-> 0]

\* _request: the headers carry this.token when it is set.  stale records whether
\* the engine holds that token expired at the instant the request is sent.
Request(cl, kind, batch, body, t) ==
    [kind |-> kind, batch |-> batch, body |-> body, tok |-> cl.token,
     stale |-> cl.token.kind = "lease" /\ ~EngineTokenValid(cl.token, t)]

\* The engine handles POST /v1/auth/approle/login: a token of the role's
\* token_ttl for the role's credentials, an error status otherwise.
LoginRequest(cl) ==
    [kind |-> "login",
     grant |-> IF EngineLoginOk(cl.roleId, cl.secretId)
               THEN [ok |-> TRUE, token |-> LeaseToken(Len(leases) + 1), ttl |-> tokenTtl]
               ELSE [ok |-> FALSE]]

\* The method continues after _ensureToken with the session cl
Continue(c, cl, before) ==
    LET next == AfterEnsure(op'[c], arg'[c])
    IN IF next.ret
       THEN /\ pc' = [pc EXCEPT ![c] = "done"]
            /\ res' = [res EXCEPT ![c] = next.res]
            /\ wire' = [wire EXCEPT ![c] = NoWire]
            /\ sent' = [sent EXCEPT ![c] = before]
       ELSE /\ pc' = [pc EXCEPT ![c] = "crypto"]
            /\ res' = [res EXCEPT ![c] = <<>>]
            /\ wire' = [wire EXCEPT ![c] = Request(cl, next.kind, next.batch, next.body, now)]
            /\ sent' = [sent EXCEPT ![c] = Append(before, next.kind)]

\* Method o is invoked on argument a and runs to its first round trip or its return
Invoke(c, o, a) ==
    /\ op' = [op EXCEPT ![c] = o]
    /\ arg' = [arg EXCEPT ![c] = a]
    /\ rejected' = [rejected EXCEPT ![c] = FALSE]
    /\ UNCHANGED <<client, now, keyVersion, lastLogin, tokenTtl>>
    /\ IF o = "healthCheck"
       THEN /\ pc' = [pc EXCEPT ![c] = "crypto"]
            /\ wire' = [wire EXCEPT ![c] = Request(client, "health", FALSE, <<>>, now)]
            /\ sent' = [sent EXCEPT ![c] = <<"health">>]
            /\ res' = [res EXCEPT ![c] = <<>>]
            /\ UNCHANGED <<leases, raced>>
       ELSE IF ChecksConfigured(o) /\ ~client.configured
       THEN /\ pc' = [pc EXCEPT ![c] = "done"]
            /\ res' = [res EXCEPT ![c] = a]
            /\ sent' = [sent EXCEPT ![c] = <<>>]
            /\ UNCHANGED <<wire, leases, raced>>
       ELSE IF NeedsLogin(client, now)
       THEN LET req == LoginRequest(client)
                overlap == \E d \in Tasks \ {c} : pc[d] = "login"
            IN /\ req.grant.ok => Len(leases) < MaxLogins
               /\ pc' = [pc EXCEPT ![c] = "login"]
               /\ wire' = [wire EXCEPT ![c] = req]
               /\ sent' = [sent EXCEPT ![c] = <<"login">>]
               /\ res' = [res EXCEPT ![c] = <<>>]
               /\ leases' = IF req.grant.ok THEN Append(leases, now + req.grant.ttl) ELSE leases
               /\ raced' = [d \in Tasks |->
                                IF d = c THEN overlap ELSE raced[d] \/ pc[d] = "login"]
       ELSE /\ Continue(c, client, <<>>)
            /\ raced' = [raced EXCEPT ![c] = FALSE]
            /\ UNCHANGED leases

\* A task runs no client method: the step that would call one found nothing to send
Skip(c) ==
    /\ pc' = [pc EXCEPT ![c] = "done"]
    /\ op' = [op EXCEPT ![c] = "none"]
    /\ arg' = [arg EXCEPT ![c] = <<>>]
    /\ res' = [res EXCEPT ![c] = <<>>]
    /\ sent' = [sent EXCEPT ![c] = <<>>]
    /\ raced' = [raced EXCEPT ![c] = FALSE]
    /\ rejected' = [rejected EXCEPT ![c] = FALSE]
    /\ UNCHANGED <<client, now, leases, keyVersion, wire, lastLogin, tokenTtl>>

\* The task is free again
Release(c) ==
    /\ pc' = [pc EXCEPT ![c] = "idle"]
    /\ op' = [op EXCEPT ![c] = "none"]
    /\ arg' = [arg EXCEPT ![c] = <<>>]
    /\ res' = [res EXCEPT ![c] = <<>>]
    /\ sent' = [sent EXCEPT ![c] = <<>>]
    /\ raced' = [raced EXCEPT ![c] = FALSE]
    /\ rejected' = [rejected EXCEPT ![c] = FALSE]
    /\ UNCHANGED <<client, now, leases, keyVersion, wire, lastLogin, tokenTtl>>

\* A continuation is due: it runs before any other event is handled
Busy ==
    \/ run.st = "launch"
    \/ \E c \in Tasks : job[c].kind # "none" /\ pc[c] \in {"done", "failed"}
    \/ \E c \in Tasks : job[c].kind = "held"
    \/ /\ run.st = "batch"
       /\ \/ \E c \in Tasks : job[c].kind = "rewrapDoc" /\ job[c].phase = "failed"
          \/ \A k \in 1..Len(run.batch) :
                \E c \in Tasks : job[c].kind = "rewrapDoc" /\ job[c].id = run.batch[k].id
                                    /\ job[c].phase = "finished"

\* A caller invokes method o on argument a
Call(c, o, a) ==
    /\ pc[c] = "idle" /\ job[c] = NoJob /\ ~Busy
    /\ Invoke(c, o, a)
    /\ UNCHANGED storeVars

\* The login response arrives: _authenticate stores the token and the method goes
\* on, or the round trip failed and the method throws.
LoginResponse(c, ok) ==
    /\ pc[c] = "login" /\ ~Busy
    /\ UNCHANGED <<now, leases, keyVersion, op, arg, raced, tokenTtl>>
    /\ UNCHANGED storeVars
    /\ IF ok
       THEN /\ wire[c].grant.ok
            /\ client' = Authenticate(client, wire[c].grant, now)
            /\ lastLogin' = [token |-> wire[c].grant.token, ttl |-> wire[c].grant.ttl,
                             at |-> now]
            /\ Continue(c, client', sent[c])
            /\ UNCHANGED rejected
       ELSE /\ pc' = [pc EXCEPT ![c] = "failed"]
            /\ wire' = [wire EXCEPT ![c] = NoWire]
            /\ rejected' = [rejected EXCEPT ![c] = TRUE]
            /\ client' = AuthenticateRejected(client)
            /\ UNCHANGED <<lastLogin, res, sent>>

\* What can come of GET /v1/sys/health: a 200 with the health object, a 200
\* whose body is the JSON null, a status of 400 or more, a body that is not
\* JSON, a connection error
HealthOutcomes == {"ok", "null", "status", "unparsable", "connection"}

\* _request: the promise resolves with the parsed body or rejects with an Error
RequestSettles(out) ==
    CASE out = "ok" -> [resolved |-> TRUE, body |-> [sealed |-> FALSE, version |-> "1.15"]]
      [] out = "null" -> [resolved |-> TRUE, body |-> Null]
      [] out = "status" -> [resolved |-> FALSE, message |-> "Vault error"]
      [] out = "unparsable" -> [resolved |-> FALSE, message |-> "Failed to parse Vault response"]
      [] out = "connection" -> [resolved |-> FALSE, message |-> "connect ECONNREFUSED"]

\* A healthCheck without its try/catch
HealthCheckUncaught(out) ==
    LET r == RequestSettles(out)
    IN IF r.resolved /\ r.body # Null
       THEN [t |-> "health", ok |-> TRUE, sealed |-> r.body.sealed, version |-> r.body.version]
       ELSE [t |-> "thrown"]

\* healthCheck: the status it resolves to.  Reading response.sealed of a null
\* body throws inside the try and is caught like a rejection.
HealthCheck(out) ==
    LET r == RequestSettles(out)
    IN IF r.resolved /\ r.body # Null
       THEN [t |-> "health", ok |-> TRUE, sealed |-> r.body.sealed, version |-> r.body.version]
       ELSE [t |-> "health", ok |-> FALSE,
             error |-> IF r.resolved THEN "Cannot read properties of null" ELSE r.message]

\* The response of the health request arrives, or the request fails
HealthResponse(c, out) ==
    /\ pc[c] = "crypto" /\ ~Busy
    /\ wire[c].kind = "health"
    /\ UNCHANGED <<client, now, leases, keyVersion, op, arg, sent, raced, lastLogin, tokenTtl>>
    /\ UNCHANGED storeVars
    /\ wire' = [wire EXCEPT ![c] = NoWire]
    /\ LET h == HealthCheck(out)
       IN /\ pc' = [pc EXCEPT ![c] = IF h.t = "thrown" THEN "failed" ELSE "done"]
          /\ res' = [res EXCEPT ![c] = <<h>>]
          /\ rejected' = [rejected EXCEPT ![c] = ~RequestSettles(out).resolved]

\* The response of an encrypt, decrypt or rewrap request arrives.  The
\* engine answers 200 only to a token it accepts; a single-item request whose
\* item fails is an error status, a batch reports it in batch_results.
CryptoResponse(c, ok) ==
    /\ pc[c] = "crypto" /\ ~Busy
    /\ wire[c].kind # "health"
    /\ UNCHANGED <<client, now, leases, keyVersion, op, arg, sent, raced, lastLogin, tokenTtl>>
    /\ UNCHANGED storeVars
    /\ wire' = [wire EXCEPT ![c] = NoWire]
    /\ LET items == EngineItems(wire[c].kind, wire[c].body)
       IN IF ok
          THEN /\ EngineTokenValid(wire[c].tok, now)
               /\ wire[c].batch \/ ~HasError(items)
               /\ IF HasError(items)
                  THEN /\ pc' = [pc EXCEPT ![c] = "failed"]
                       /\ rejected' = [rejected EXCEPT ![c] = TRUE]
                       /\ res' = [res EXCEPT ![c] = <<ItemError(items)>>]
                  ELSE /\ pc' = [pc EXCEPT ![c] = "done"]
                       /\ res' = [res EXCEPT ![c] = MethodResult(op[c], arg[c], items)]
                       /\ UNCHANGED rejected
          ELSE /\ pc' = [pc EXCEPT ![c] = "failed"]
               /\ rejected' = [rejected EXCEPT ![c] = TRUE]
               /\ UNCHANGED res

\* The caller takes the result or the error and is free for its next call
Return(c) ==
    /\ pc[c] \in {"done", "failed"} /\ job[c] = NoJob
    /\ Release(c)
    /\ UNCHANGED storeVars

\* Time passes
Tick ==
    /\ now + TickStep <= MaxTime /\ ~Busy
    /\ now' = now + TickStep
    /\ UNCHANGED <<client, leases, keyVersion, pc, op, arg, res, wire, sent, raced,
                   rejected, lastLogin, tokenTtl>>
    /\ UNCHANGED storeVars

----------------------------------------------------------------------------
(* The PII field codec and the User model's hooks *)

\* The fields the User hooks and the rewrap script name
UserPII == <<"email", "fullName">>

Doc(e, f) == [email |-> e, fullName |-> f]

\* A test that takes every non-empty string, encrypted or not
NeedsEncryptAny(v) == Truthy(v) /\ IsString(v)

\* encryptPII: value && typeof value === 'string' && !value.startsWith('vault:')
NeedsEncrypt(v) == Truthy(v) /\ IsString(v) /\ ~StartsWithVault(v)

\* decryptPII: value && typeof value === 'string'
NeedsDecrypt(v) == Truthy(v) /\ IsString(v)

\* _rewrapBatch: value && typeof value === 'string' && value.startsWith('vault:')
NeedsRewrap(v) == Truthy(v) /\ IsString(v) /\ StartsWithVault(v)

\* A collection that takes every named field, whatever it holds
ToEncryptNamed(doc, fields) == fields

\* encryptPII, decryptPII: the names pushed to fieldNames, in the order of fields
ToEncrypt(doc, fields) == SelectSeq(fields, LAMBDA f : NeedsEncrypt(doc[f]))
ToDecrypt(doc, fields) == SelectSeq(fields, LAMBDA f : NeedsDecrypt(doc[f]))

\* The values pushed along with the names
ValuesOf(doc, names) == [i \in 1..Len(names) |-> doc[names[i]]]

\* fieldNames.forEach((field, i) => { doc[field] = values[i] })
WriteBack(doc, names, values) ==
    [f \in DOMAIN doc |->
        IF \E i \in 1..Len(names) : names[i] = f
        THEN values[CHOOSE i \in 1..Len(names) : names[i] = f]
        ELSE doc[f]]

\* A hook that writes whatever values it has, also after the batch call threw
HookedEager(doc, names, values, done) ==
    WriteBack(doc, names, [i \in 1..Len(names) |-> IF i <= Len(values) THEN values[i] ELSE Null])

\* encryptPII, decryptPII: the document after the hook.  The forEach that writes
\* the fields comes after the await of the batch call, which throws on failure.
Hooked(doc, names, values, done) == IF done THEN WriteBack(doc, names, values) ELSE doc

\* The document as the caller of the hook holds it: was is the document the hook
\* was given, ok whether the hook returned
HeldJob(was, doc, ok) == [kind |-> "held", was |-> was, doc |-> doc, ok |-> ok]

SaveJob(id, doc, names) == [kind |-> "save", id |-> id, doc |-> doc, names |-> names]
FindJob(id, doc, names) == [kind |-> "find", id |-> id, doc |-> doc, names |-> names]

\* save(): the pre-save hook runs encryptPII on the document, which calls
\* encryptBatch when a field qualifies
BeginSave(c, id, doc) ==
    LET names == ToEncrypt(doc, UserPII)
    IN /\ job' = [job EXCEPT ![c] = SaveJob(id, doc, names)]
       /\ IF names = <<>> THEN Skip(c) ELSE Invoke(c, "encryptBatch", ValuesOf(doc, names))

\* POST /api/register: new User({email, fullName, ...}).save()
Register(c, e, f) ==
    /\ pc[c] = "idle" /\ job[c] = NoJob /\ ~Busy
    /\ Len(db) < MaxDocs
    /\ BeginSave(c, 0, Doc(e, f))
    /\ UNCHANGED <<db, run>>

\* The document as the store holds it after the write
Persist(store, id, doc) == IF id = 0 THEN Append(store, doc) ELSE [store EXCEPT ![id] = doc]

WriteJob(id, was, doc) == [kind |-> "write", id |-> id, was |-> was, doc |-> doc]

\* The pre-save hook is over: the ciphertexts are written onto the document and
\* the document is sent to the store, or the hook threw and save() rejects.
SaveResume(c) ==
    /\ job[c].kind = "save" /\ pc[c] \in {"done", "failed"}
    /\ LET doc == Hooked(job[c].doc, job[c].names, res[c], pc[c] = "done")
       IN job' = [job EXCEPT ![c] = IF pc[c] = "done" THEN WriteJob(job[c].id, job[c].doc, doc)
                                    ELSE HeldJob(job[c].doc, doc, FALSE)]
    /\ Release(c)
    /\ UNCHANGED <<db, run>>

\* The store handles the write and answers.  A write it refuses changes nothing.
StoreWrite(c, ok) ==
    /\ job[c].kind = "write" /\ ~Busy
    /\ db' = IF ok THEN Persist(db, job[c].id, job[c].doc) ELSE db
    /\ job' = [job EXCEPT ![c] = HeldJob(job[c].was, job[c].doc, TRUE)]
    /\ UNCHANGED <<client, now, leases, keyVersion, pc, op, arg, res, wire, sent, raced,
                   rejected, lastLogin, tokenTtl, run>>

\* User.findOne(...): the post-findOne hook runs decryptPII on the document read
Find(c, id) ==
    /\ pc[c] = "idle" /\ job[c] = NoJob /\ ~Busy
    /\ id \in 1..Len(db)
    /\ LET names == ToDecrypt(db[id], UserPII)
       IN /\ job' = [job EXCEPT ![c] = FindJob(id, db[id], names)]
          /\ IF names = <<>> THEN Skip(c)
             ELSE Invoke(c, "decryptBatch", ValuesOf(db[id], names))
    /\ UNCHANGED <<db, run>>

\* decryptPII is over: the handler has the document with the plaintexts set, or
\* the rejection
FindResume(c) ==
    /\ job[c].kind = "find" /\ pc[c] \in {"done", "failed"}
    /\ LET doc == Hooked(job[c].doc, job[c].names, res[c], pc[c] = "done")
       IN job' = [job EXCEPT ![c] = HeldJob(job[c].doc, doc, pc[c] = "done")]
    /\ Release(c)
    /\ UNCHANGED <<db, run>>

\* The handler answers the request and lets go of the document
Respond(c) ==
    /\ job[c].kind = "held"
    /\ job' = [job EXCEPT ![c] = NoJob]
    /\ UNCHANGED <<client, now, leases, keyVersion, pc, op, arg, res, wire, sent, raced,
                   rejected, lastLogin, tokenTtl, db, run>>

----------------------------------------------------------------------------
(* rewrapCollection: the cursor, the batches and the document tasks *)

\* The task that runs the k-th document of a batch
DocTaskSeq == <<"d1", "d2">>
BatchSizes == {1, 2}

\* The task of a document: doc is the document in memory, f the field being
\* rewrapped, touched the fields assigned so far, names the fields the
\* pre-save hook encrypts
DocJob(id, doc, f, phase) ==
    [kind |-> "rewrapDoc", id |-> id, doc |-> doc, f |-> f, touched |-> {},
     phase |-> phase, names |-> <<>>]

\* The task of a document whose promise is settled
Settled(id, phase) == [kind |-> "rewrapDoc", id |-> id, phase |-> phase]

\* A loop that stops after the first field
NextRewrapFirstOnly(doc, f) == IF f = 1 /\ NeedsRewrap(doc[UserPII[1]]) THEN 1 ELSE 0

\* for (const field of fields): the next field from position f on that is rewrapped
NextRewrap(doc, f) ==
    IF \E k \in f..Len(UserPII) : NeedsRewrap(doc[UserPII[k]])
    THEN CHOOSE k \in f..Len(UserPII) :
            /\ NeedsRewrap(doc[UserPII[k]])
            /\ \A j \in f..(k - 1) : ~NeedsRewrap(doc[UserPII[j]])
    ELSE 0

\* rewrapCollection(Model, fields, batchSize): Model.find({}).cursor()
\* node scripts/vault-rewrap.js, for the first time or again once the earlier
\* process has ended and the writes it had sent have been handled
RunStart(size) ==
    /\ run.st \in {"none", "done", "failed"} /\ ~Busy
    /\ run.n < MaxRuns
    /\ \A c \in DocTasks :
            IF job[c] = NoJob THEN TRUE ELSE job[c].phase \in {"finished", "failed", "killed"}
    /\ run' = [st |-> "scanning", size |-> size, pos |-> 0, batch |-> <<>>, next |-> 0,
               last |-> FALSE, processed |-> 0, n |-> run.n + 1, kv |-> keyVersion,
               saves |-> 0, persisted |-> 0, snap |-> db,
               prev |-> [st |-> run.st, kv |-> run.kv], handed |-> <<>>]
    /\ job' = [c \in Tasks |-> IF c \in DocTasks THEN NoJob ELSE job[c]]
    /\ UNCHANGED <<client, now, leases, keyVersion, pc, op, arg, res, wire, sent, raced,
                   rejected, lastLogin, tokenTtl, db>>

\* for await (const doc of cursor): batch.push(doc), and a full batch is rewrapped
CursorNext ==
    /\ run.st = "scanning" /\ ~Busy
    /\ run.pos < Len(db)
    /\ LET batch == Append(run.batch, [id |-> run.pos + 1, doc |-> db[run.pos + 1]])
       IN run' = [run EXCEPT !.pos = run.pos + 1, !.batch = batch,
                             !.st = IF Len(batch) >= run.size THEN "launch" ELSE "scanning",
                             !.next = IF Len(batch) >= run.size THEN 1 ELSE 0]
    /\ UNCHANGED <<client, now, leases, keyVersion, pc, op, arg, res, wire, sent, raced,
                   rejected, lastLogin, tokenTtl, db, job>>

\* The cursor is exhausted: the remaining documents are rewrapped, or the run is done
CursorEnd ==
    /\ run.st = "scanning" /\ ~Busy
    /\ run.pos = Len(db)
    /\ run' = IF run.batch # <<>>
              THEN [run EXCEPT !.st = "launch", !.next = 1, !.last = TRUE]
              ELSE [run EXCEPT !.st = "done"]
    /\ UNCHANGED <<client, now, leases, keyVersion, pc, op, arg, res, wire, sent, raced,
                   rejected, lastLogin, tokenTtl, db, job>>

\* The document task settles: its promise is fulfilled or rejected
Settle(c, phase) ==
    /\ job' = [job EXCEPT ![c] = Settled(job[c].id, phase)]
    /\ Release(c)

\* The document task goes on from field f: the next rewrap, or the save when a
\* field was rewrapped, or nothing
Proceed(c, j, f, changed) ==
    LET k == NextRewrap(j.doc, f)
    IN IF k # 0
       THEN /\ job' = [job EXCEPT ![c] = [j EXCEPT !.f = k, !.phase = "rewrap"]]
            /\ Invoke(c, "rewrap", <<j.doc[UserPII[k]]>>)
            /\ UNCHANGED run
       ELSE IF changed
       THEN LET names == ToEncrypt(j.doc, UserPII)
            IN /\ job' = [job EXCEPT ![c] = [j EXCEPT !.phase = "save", !.names = names]]
               /\ IF names = <<>> THEN Skip(c)
                  ELSE Invoke(c, "encryptBatch", ValuesOf(j.doc, names))
               /\ run' = [run EXCEPT !.saves = run.saves + 1]
       ELSE /\ job' = [job EXCEPT ![c] = Settled(j.id, "finished")]
            /\ Release(c)
            /\ UNCHANGED run

\* _rewrapBatch: docs.map(async (doc) => ...) starts the task of each document
DocStart(c) ==
    /\ run.st = "launch"
    /\ c = DocTaskSeq[run.next]
    /\ LET b == run.batch[run.next]
           k == NextRewrap(b.doc, 1)
       IN /\ IF k # 0
             THEN /\ job' = [job EXCEPT ![c] = DocJob(b.id, b.doc, k, "rewrap")]
                  /\ Invoke(c, "rewrap", <<b.doc[UserPII[k]]>>)
             ELSE /\ job' = [job EXCEPT ![c] = Settled(b.id, "finished")]
                  /\ Release(c)
    /\ run' = [run EXCEPT !.next = IF run.next = Len(run.batch) THEN 0 ELSE run.next + 1,
                          !.st = IF run.next = Len(run.batch) THEN "batch" ELSE "launch",
                          !.handed = Append(run.handed, run.batch[run.next].id)]
    /\ UNCHANGED db

\* save() of a loaded document writes the paths that were modified: the fields
\* assigned a rewrapped value (transit/rewrap encrypts under a fresh nonce, so
\* the ciphertext returned is never the string sent) and the fields the
\* pre-save hook encrypted
Modified(j) ==
    [f \in DOMAIN j.doc |-> f \in j.touched \/ \E i \in 1..Len(j.names) : j.names[i] = f]
Update(stored, doc, mod) == [f \in DOMAIN stored |-> IF mod[f] THEN doc[f] ELSE stored[f]]

\* vault.rewrap, or the pre-save hook of doc.save(), of a document task is over
DocResume(c) ==
    /\ job[c].kind = "rewrapDoc" /\ pc[c] \in {"done", "failed"}
    /\ UNCHANGED db
    /\ IF pc[c] = "failed"
       THEN Settle(c, "failed") /\ UNCHANGED run
       ELSE IF job[c].phase = "rewrap"
       THEN Proceed(c, [job[c] EXCEPT !.doc[UserPII[job[c].f]] = res[c][1],
                                      !.touched = @ \cup {UserPII[job[c].f]}],
                    job[c].f + 1, TRUE)
       ELSE /\ job' = [job EXCEPT ![c] =
                        [job[c] EXCEPT !.phase = "write",
                                       !.doc = WriteBack(job[c].doc, job[c].names, res[c])]]
            /\ Release(c)
            /\ UNCHANGED run

\* The store handles the write of a document task and answers
DocWrite(c, ok) ==
    /\ job[c].kind = "rewrapDoc" /\ job[c].phase = "write" /\ ~Busy
    /\ db' = IF ok
             THEN [db EXCEPT ![job[c].id] =
                        Update(db[job[c].id], job[c].doc, Modified(job[c]))]
             ELSE db
    /\ job' = [job EXCEPT ![c] = Settled(job[c].id, IF ok THEN "finished" ELSE "failed")]
    /\ run' = IF ok /\ run.st = "batch" THEN [run EXCEPT !.persisted = run.persisted + 1]
              ELSE run
    /\ UNCHANGED <<client, now, leases, keyVersion, pc, op, arg, res, wire, sent, raced,
                   rejected, lastLogin, tokenTtl>>

BatchTasks == {DocTaskSeq[k] : k \in 1..Len(run.batch)}

\* A batch that is over as soon as one of its documents is
BatchJoinEarly ==
    /\ run.st = "batch"
    /\ \E c \in BatchTasks : job[c].phase = "finished"
    /\ run' = [run EXCEPT !.processed = run.processed + Len(run.batch), !.batch = <<>>,
                          !.st = IF run.last THEN "done" ELSE "scanning"]
    /\ job' = [c \in Tasks |->
                IF c \in BatchTasks /\ job[c].phase = "finished" THEN NoJob ELSE job[c]]
    /\ UNCHANGED <<client, now, leases, keyVersion, pc, op, arg, res, wire, sent, raced,
                   rejected, lastLogin, tokenTtl, db>>

\* await Promise.all(...) is fulfilled: processed += batch.length; batch.length = 0
BatchJoin ==
    /\ run.st = "batch"
    /\ \A c \in BatchTasks : job[c].phase = "finished"
    /\ run' = [run EXCEPT !.processed = run.processed + Len(run.batch), !.batch = <<>>,
                          !.st = IF run.last THEN "done" ELSE "scanning"]
    /\ job' = [c \in Tasks |-> IF c \in BatchTasks THEN NoJob ELSE job[c]]
    /\ UNCHANGED <<client, now, leases, keyVersion, pc, op, arg, res, wire, sent, raced,
                   rejected, lastLogin, tokenTtl, db>>

\* The tasks that end with the process: a write already sent stays with the store
Killed(c) == c \in BatchTasks /\ job[c].phase \in {"rewrap", "save"}

\* await Promise.all(...) rejects with the first task that rejects:
\* rewrapCollection throws and main().catch calls process.exit(1)
RunFail ==
    /\ run.st = "batch"
    /\ \E c \in BatchTasks : job[c].phase = "failed"
    /\ run' = [run EXCEPT !.st = "failed"]
    /\ job' = [c \in Tasks |-> IF Killed(c) THEN Settled(job[c].id, "killed") ELSE job[c]]
    /\ pc' = [c \in Tasks |-> IF Killed(c) THEN "idle" ELSE pc[c]]
    /\ op' = [c \in Tasks |-> IF Killed(c) THEN "none" ELSE op[c]]
    /\ arg' = [c \in Tasks |-> IF Killed(c) THEN <<>> ELSE arg[c]]
    /\ res' = [c \in Tasks |-> IF Killed(c) THEN <<>> ELSE res[c]]
    /\ wire' = [c \in Tasks |-> IF Killed(c) THEN NoWire ELSE wire[c]]
    /\ sent' = [c \in Tasks |-> IF Killed(c) THEN <<>> ELSE sent[c]]
    /\ raced' = [c \in Tasks |-> IF Killed(c) THEN FALSE ELSE raced[c]]
    /\ rejected' = [c \in Tasks |-> IF Killed(c) THEN FALSE ELSE rejected[c]]
    /\ UNCHANGED <<client, now, leases, keyVersion, lastLogin, tokenTtl, db>>

\* scripts/vault-rotate-key.sh: the transit key gets a new version
Rotate ==
    /\ keyVersion < MaxKeyVersion /\ ~Busy
    /\ keyVersion' = keyVersion + 1
    /\ UNCHANGED <<client, now, leases, pc, op, arg, res, wire, sent, raced,
                   rejected, lastLogin, tokenTtl, db, job, run>>

----------------------------------------------------------------------------
(* Concurrent callers of a role-authenticated or static session *)

Alice == Str(FALSE, "alice")
Hello == Str(TRUE, "hello")
Sealed == Env(1, Alice)

RoleEnv == [VAULT_TOKEN |-> "", VAULT_ROLE_ID |-> EngineRoleId, VAULT_SECRET_ID |-> EngineSecretId]
StaticEnv == [VAULT_TOKEN |-> "root", VAULT_ROLE_ID |-> "", VAULT_SECRET_ID |-> ""]

InitWith(envs) ==
    /\ client \in {Constructor(e) : e \in envs}
    /\ now = 0
    /\ leases = <<>>
    /\ keyVersion = 1
    /\ tokenTtl \in LeaseDurations
    /\ pc = [c \in Tasks |-> "idle"]
    /\ op = [c \in Tasks |-> "none"]
    /\ arg = [c \in Tasks |-> <<>>]
    /\ res = [c \in Tasks |-> <<>>]
    /\ wire = [c \in Tasks |-> NoWire]
    /\ sent = [c \in Tasks |-> <<>>]
    /\ raced = [c \in Tasks |-> FALSE]
    /\ rejected = [c \in Tasks |-> FALSE]
    /\ lastLogin = NoLogin
    /\ job = [c \in Tasks |-> NoJob]
    /\ run = NoRun

RaceCalls == {<<"encrypt", <<Alice>> >>, <<"decrypt", <<Sealed>> >>, <<"decrypt", <<Alice>> >>}

Init == InitWith({RoleEnv, StaticEnv}) /\ db = <<>>

Next ==
    \/ \E c \in Callers : \E k \in RaceCalls : Call(c, k[1], k[2])
    \/ \E c \in Callers : \E ok \in BOOLEAN : LoginResponse(c, ok)
    \/ \E c \in Callers : \E ok \in BOOLEAN : CryptoResponse(c, ok)
    \/ \E c \in Callers : Return(c)
    \/ Tick

Spec == Init /\ [][Next]_vars

----------------------------------------------------------------------------
(* One caller, every configuration of the environment, every method *)

Empty == Str(FALSE, "")
Marker == Str(TRUE, "")

StringVals == {Empty, Alice, Marker, Hello, Sealed}
BatchVals == {Alice, Hello, Sealed}

SeqsUpTo(S, n) == UNION {[1..k -> S] : k \in 0..n}

Envs ==
    [VAULT_TOKEN : {"", "root"},
     VAULT_ROLE_ID : {"", "placeholder", EngineRoleId},
     VAULT_SECRET_ID : {"", "placeholder", EngineSecretId}]

OpsCalls ==
    {<<"encrypt", <<v>> >> : v \in StringVals}
        \cup {<<"decrypt", <<v>> >> : v \in StringVals \cup {Null}}
        \cup {<<"rewrap", <<v>> >> : v \in StringVals}
        \cup {<<o, a>> : o \in {"encryptBatch", "decryptBatch"}, a \in SeqsUpTo(BatchVals, MaxBatch)}
        \cup {<<"healthCheck", <<>> >>}

InitOps == InitWith(Envs) /\ db = <<>>

NextOps ==
    \/ \E k \in OpsCalls : Call("c1", k[1], k[2])
    \/ \E ok \in BOOLEAN : LoginResponse("c1", ok)
    \/ \E ok \in BOOLEAN : CryptoResponse("c1", ok)
    \/ \E out \in HealthOutcomes : HealthResponse("c1", out)
    \/ Return("c1")
    \/ Tick

SpecOps == InitOps /\ [][NextOps]_vars

----------------------------------------------------------------------------
(* The application and the rewrap job over the record store *)

Mail == Str(FALSE, "a@b.c")
BareEnv == [VAULT_TOKEN |-> "", VAULT_ROLE_ID |-> "", VAULT_SECRET_ID |-> ""]
StoreEnvs == {StaticEnv, RoleEnv, BareEnv}

\* registerSchema: email is an e-mail address, fullName any string up to 100
\* characters, '' or null
Emails == {Mail}
FullNames == {Null, Alice, Hello}

\* The records an earlier process has left in the store
InitialStores == {<<>>, <<Doc(Env(1, Mail), Env(1, Alice))>>}

InitStore ==
    /\ InitWith(StoreEnvs)
    /\ \A d \in LeaseDurations : d <= tokenTtl
    /\ db \in InitialStores

NextStore ==
    \/ \E e \in Emails : \E f \in FullNames : Register("c1", e, f)
    \/ SaveResume("c1")
    \/ \E ok \in BOOLEAN : StoreWrite("c1", ok)
    \/ \E id \in 1..MaxDocs : Find("c1", id)
    \/ FindResume("c1")
    \/ Respond("c1")
    \/ \E size \in BatchSizes : RunStart(size)
    \/ CursorNext
    \/ CursorEnd
    \/ \E c \in DocTasks : DocStart(c)
    \/ \E c \in DocTasks : DocResume(c)
    \/ \E c \in DocTasks : \E ok \in BOOLEAN : DocWrite(c, ok)
    \/ BatchJoin
    \/ RunFail
    \/ \E c \in Tasks : \E ok \in BOOLEAN : LoginResponse(c, ok)
    \/ \E c \in Tasks : \E ok \in BOOLEAN : CryptoResponse(c, ok)
    \/ Rotate

SpecStore == InitStore /\ [][NextStore]_vars

\* The application alone
NextApp ==
    \/ \E e \in Emails : \E f \in FullNames : Register("c1", e, f)
    \/ SaveResume("c1")
    \/ \E ok \in BOOLEAN : StoreWrite("c1", ok)
    \/ \E id \in 1..MaxDocs : Find("c1", id)
    \/ FindResume("c1")
    \/ Respond("c1")
    \/ \E ok \in BOOLEAN : LoginResponse("c1", ok)
    \/ \E ok \in BOOLEAN : CryptoResponse("c1", ok)
    \/ Rotate

SpecApp == InitStore /\ [][NextApp]_vars

----------------------------------------------------------------------------
(* POST /api/auth/google for a Google id no account has *)

GoogleJob(e, name) == [kind |-> "google", email |-> e, name |-> name]
ConflictJob(id, doc, names, e) ==
    [kind |-> "conflict", id |-> id, doc |-> doc, names |-> names, email |-> e]
AnsweredJob(status, e) == [kind |-> "answered", status |-> status, email |-> e]

\* User.findOne({ email }): the documents whose stored email is the string asked for
EmailMatches(e) == {id \in 1..Len(db) : db[id].email = e}

\* The handler has verified the token, found no account with the Google id and
\* looks for an account with the e-mail address: the post-findOne hook decrypts
\* the document found, or none is found and the handler goes on
GoogleSignIn(c, e, name) ==
    /\ pc[c] = "idle" /\ job[c] = NoJob /\ ~Busy
    /\ Len(db) < MaxDocs
    /\ IF EmailMatches(e) # {}
       THEN LET id == CHOOSE i \in EmailMatches(e) : \A j \in EmailMatches(e) : i <= j
                names == ToDecrypt(db[id], UserPII)
            IN /\ job' = [job EXCEPT ![c] = ConflictJob(id, db[id], names, e)]
               /\ IF names = <<>> THEN Skip(c)
                  ELSE Invoke(c, "decryptBatch", ValuesOf(db[id], names))
       ELSE /\ job' = [job EXCEPT ![c] = GoogleJob(e, name)]
            /\ UNCHANGED <<client, now, leases, keyVersion, pc, op, arg, res, wire, sent,
                           raced, rejected, lastLogin, tokenTtl>>
    /\ UNCHANGED <<db, run>>

\* if (emailConflict) return res.status(409), or the hook threw and the catch
\* answers 500
ConflictResume(c) ==
    /\ job[c].kind = "conflict" /\ pc[c] \in {"done", "failed"}
    /\ job' = [job EXCEPT ![c] =
                    AnsweredJob(IF pc[c] = "done" THEN 409 ELSE 500, job[c].email)]
    /\ Release(c)
    /\ UNCHANGED <<db, run>>

\* No conflict was found: a username is chosen and new User({ email, fullName:
\* name, googleId, ... }).save() is called
GoogleCreate(c) ==
    /\ job[c].kind = "google" /\ pc[c] = "idle" /\ ~Busy
    /\ BeginSave(c, 0, Doc(job[c].email, job[c].name))
    /\ UNCHANGED <<db, run>>

\* The response is sent
Reply(c) ==
    /\ job[c].kind = "answered"
    /\ job' = [job EXCEPT ![c] = NoJob]
    /\ UNCHANGED <<client, now, leases, keyVersion, pc, op, arg, res, wire, sent, raced,
                   rejected, lastLogin, tokenTtl, db, run>>

NextSso ==
    \/ \E e \in Emails : \E f \in FullNames : Register("c1", e, f)
    \/ \E e \in Emails : GoogleSignIn("c1", e, Alice)
    \/ ConflictResume("c1")
    \/ GoogleCreate("c1")
    \/ Reply("c1")
    \/ SaveResume("c1")
    \/ \E ok \in BOOLEAN : StoreWrite("c1", ok)
    \/ Respond("c1")
    \/ \E ok \in BOOLEAN : LoginResponse("c1", ok)
    \/ \E ok \in BOOLEAN : CryptoResponse("c1", ok)
    \/ Rotate

SpecSso == InitStore /\ [][NextSso]_vars

----------------------------------------------------------------------------
(* The rewrap job alone over a store that earlier processes have filled *)

Old == Doc(Env(1, Mail), Env(1, Alice))
Legacy == Doc(Mail, Alice)
Anonymous == Doc(Null, Null)

RunStores == {<<>>, <<Old>>, <<Old, Old>>, <<Legacy, Old>>, <<Old, Anonymous>>}

InitRun ==
    /\ InitWith(StoreEnvs)
    /\ \A d \in LeaseDurations : d <= tokenTtl
    /\ db \in RunStores

NextRun ==
    \/ \E size \in BatchSizes : RunStart(size)
    \/ CursorNext
    \/ CursorEnd
    \/ \E c \in DocTasks : DocStart(c)
    \/ \E c \in DocTasks : DocResume(c)
    \/ \E c \in DocTasks : \E ok \in BOOLEAN : DocWrite(c, ok)
    \/ BatchJoin
    \/ RunFail
    \/ \E c \in DocTasks : \E ok \in BOOLEAN : LoginResponse(c, ok)
    \/ \E c \in DocTasks : \E ok \in BOOLEAN : CryptoResponse(c, ok)
    \/ Rotate

SpecRun == InitRun /\ [][NextRun]_vars

\* The job where every response is delivered and every continuation is run;
\* nothing obliges an operator to start the script or to rotate the key
SpecRunFair ==
    /\ InitRun /\ [][NextRun]_vars
    /\ WF_vars(CursorNext) /\ WF_vars(CursorEnd)
    /\ WF_vars(BatchJoin) /\ WF_vars(RunFail)
    /\ \A c \in DocTasks :
            /\ WF_vars(DocStart(c)) /\ WF_vars(DocResume(c))
            /\ WF_vars(\E ok \in BOOLEAN : DocWrite(c, ok))
            /\ WF_vars(\E ok \in BOOLEAN : LoginResponse(c, ok))
            /\ WF_vars(\E ok \in BOOLEAN : CryptoResponse(c, ok))

----------------------------------------------------------------------------
(* The batch methods: one caller, lists of every mix, and the round trip *)

\* A string with a lone surrogate, and an envelope of a key version the engine
\* does not hold
Lone == Str(FALSE, "\\uD800")
Foreign == Env(MaxKeyVersion + 1, Alice)

BatchInputs == SeqsUpTo({Alice, Hello, Sealed, Lone, Foreign}, MaxBatch)

\* The plaintext strings of a single round trip
PlainStrings == {Alice, Hello, Empty, Lone}

RoundTripJob(xs, phase) == [kind |-> "roundtrip", xs |-> xs, phase |-> phase]

\* decryptBatch(await encryptBatch(xs)): the first call
RoundTrip(c, xs) ==
    /\ pc[c] = "idle" /\ job[c] = NoJob /\ ~Busy
    /\ job' = [job EXCEPT ![c] = RoundTripJob(xs, "encrypt")]
    /\ Invoke(c, "encryptBatch", xs)
    /\ UNCHANGED <<db, run>>

\* decrypt(await encrypt(s)): the first call
RoundTripOne(c, s) ==
    /\ pc[c] = "idle" /\ job[c] = NoJob /\ ~Busy
    /\ job' = [job EXCEPT ![c] = RoundTripJob(<<s>>, "encryptOne")]
    /\ Invoke(c, "encrypt", <<s>>)
    /\ UNCHANGED <<db, run>>

\* encryptBatch has returned and its result goes to decryptBatch (that of
\* encrypt to decrypt), or the round trip is over
RoundTripResume(c) ==
    /\ job[c].kind = "roundtrip" /\ pc[c] \in {"done", "failed"}
    /\ IF pc[c] = "done" /\ job[c].phase = "encrypt"
       THEN /\ job' = [job EXCEPT ![c] = RoundTripJob(job[c].xs, "decrypt")]
            /\ Invoke(c, "decryptBatch", res[c])
       ELSE IF pc[c] = "done" /\ job[c].phase = "encryptOne"
       THEN /\ job' = [job EXCEPT ![c] = RoundTripJob(job[c].xs, "decryptOne")]
            /\ Invoke(c, "decrypt", res[c])
       ELSE /\ job' = [job EXCEPT ![c] = NoJob]
            /\ Release(c)
    /\ UNCHANGED <<db, run>>

InitBatch == InitWith(StoreEnvs) /\ db = <<>>

NextBatch ==
    \/ \E xs \in BatchInputs : Call("c1", "decryptBatch", xs)
    \/ \E xs \in BatchInputs : Call("c1", "encryptBatch", xs)
    \/ \E xs \in BatchInputs : RoundTrip("c1", xs)
    \/ \E s \in PlainStrings : RoundTripOne("c1", s)
    \/ RoundTripResume("c1")
    \/ \E ok \in BOOLEAN : LoginResponse("c1", ok)
    \/ \E ok \in BOOLEAN : CryptoResponse("c1", ok)
    \/ Return("c1")
    \/ Rotate

SpecBatch == InitBatch /\ [][NextBatch]_vars

----------------------------------------------------------------------------
(* encryptPII and decryptPII on plain objects, applied once and again *)

CodecMethods == {"encryptPII", "decryptPII"}

\* The names a call pushes to fieldNames
Collected(method, doc, fields) ==
    IF method = "encryptPII" THEN ToEncrypt(doc, fields) ELSE ToDecrypt(doc, fields)

\* One client call for each collected value
SingleCalls(method, values) ==
    [i \in 1..Len(values) |->
        <<IF method = "encryptPII" THEN "encrypt" ELSE "decrypt", <<values[i]>> >>]

\* encryptPII, decryptPII: the client calls made for the collected values:
\* none when nothing was collected, else one batch call for all of them
BatchCalls(method, values) ==
    IF values = <<>> THEN <<>>
    ELSE << <<IF method = "encryptPII" THEN "encryptBatch" ELSE "decryptBatch", values>> >>

\* A call of encryptPII or decryptPII that awaits the client: orig is the object
\* the first call was given, was the object this call was given, round the
\* number of this call, pending the client calls still to make, got the values
\* returned so far, reqs the encrypt and decrypt requests sent so far
CodecJob(method, fields, orig, was, round, allOk, names, pending, got, reqs) ==
    [kind |-> "codec", method |-> method, fields |-> fields, orig |-> orig, was |-> was,
     round |-> round, allOk |-> allOk, names |-> names, pending |-> pending, got |-> got,
     reqs |-> reqs]

\* The call is over: doc is the object after it, ok whether it returned, allOk
\* whether this call and every call before it returned
AppliedJob(j, doc, ok, reqs) ==
    [kind |-> "applied", method |-> j.method, fields |-> j.fields, orig |-> j.orig,
     was |-> j.was, doc |-> doc, round |-> j.round, ok |-> ok, allOk |-> j.allOk /\ ok,
     reqs |-> reqs]

\* encryptPII(doc, fields) or decryptPII(doc, fields) runs up to its await
BeginCodec(c, method, fields, orig, doc, round, allOk) ==
    LET names == Collected(method, doc, fields)
        calls == BatchCalls(method, ValuesOf(doc, names))
    IN /\ job' = [job EXCEPT ![c] =
                    CodecJob(method, fields, orig, doc, round, allOk, names,
                             IF calls = <<>> THEN <<>> ELSE Tail(calls), <<>>, <<>>)]
       /\ IF calls = <<>> THEN Skip(c) ELSE Invoke(c, calls[1][1], calls[1][2])

\* The requests of a client call that went to transit/encrypt or transit/decrypt
CodecRequests(ks) == SelectSeq(ks, LAMBDA k : k \in {"encrypt", "decrypt"})

\* A caller applies encryptPII or decryptPII to an object
ApplyCodec(c, method, doc, fields) ==
    /\ pc[c] = "idle" /\ job[c] = NoJob /\ ~Busy
    /\ BeginCodec(c, method, fields, doc, doc, 1, TRUE)
    /\ UNCHANGED <<db, run>>

\* The awaited client call is over: the values are written onto the object, or
\* the call threw and so does encryptPII or decryptPII
CodecResume(c) ==
    /\ job[c].kind = "codec" /\ pc[c] \in {"done", "failed"}
    /\ LET j == job[c]
           reqs == j.reqs \o CodecRequests(sent[c])
           got == j.got \o res[c]
       IN IF pc[c] = "done" /\ j.pending # <<>>
          THEN /\ job' = [job EXCEPT ![c] = [j EXCEPT !.pending = Tail(j.pending),
                                                       !.got = got, !.reqs = reqs]]
               /\ Invoke(c, j.pending[1][1], j.pending[1][2])
          ELSE /\ job' = [job EXCEPT ![c] =
                            AppliedJob(j, Hooked(j.was, j.names, got, pc[c] = "done"),
                                       pc[c] = "done", reqs)]
               /\ Release(c)
    /\ UNCHANGED <<db, run>>

\* The caller applies the same function to the object once more
ApplyAgain(c) ==
    /\ job[c].kind = "applied" /\ pc[c] = "idle" /\ ~Busy
    /\ job[c].round < MaxApply
    /\ BeginCodec(c, job[c].method, job[c].fields, job[c].orig, job[c].doc,
                  job[c].round + 1, job[c].allOk)
    /\ UNCHANGED <<db, run>>

\* The caller lets go of the object
Discard(c) ==
    /\ job[c].kind = "applied"
    /\ job' = [job EXCEPT ![c] = NoJob]
    /\ UNCHANGED <<client, now, leases, keyVersion, pc, op, arg, res, wire, sent, raced,
                   rejected, lastLogin, tokenTtl, db, run>>

\* The values of a field and the field lists of a call
FieldVals == {Null, Undefined, Num(42), Empty, Alice, Hello, Sealed}
FieldLists == {<<>>, <<"email">>, <<"fullName">>, UserPII, <<"fullName", "email">>}

InitCodec == InitWith(StoreEnvs) /\ db = <<>>

NextCodec ==
    \/ \E m \in CodecMethods : \E e, f \in FieldVals : \E fs \in FieldLists :
            ApplyCodec("c1", m, Doc(e, f), fs)
    \/ CodecResume("c1")
    \/ ApplyAgain("c1")
    \/ Discard("c1")
    \/ \E ok \in BOOLEAN : LoginResponse("c1", ok)
    \/ \E ok \in BOOLEAN : CryptoResponse("c1", ok)
    \/ Rotate

SpecCodec == InitCodec /\ [][NextCodec]_vars

----------------------------------------------------------------------------
(* One caller and an engine that may never answer *)

\* The engine, or the network on the way, never answers the request of c.
\* _request sets no timeout on the request and no timer beside it, so nothing
\* settles its promise.
Drop(c) ==
    /\ pc[c] \in {"login", "crypto"} /\ ~Busy
    /\ pc' = [pc EXCEPT ![c] = "hung"]
    /\ UNCHANGED <<client, now, leases, keyVersion, op, arg, res, wire, sent, raced,
                   rejected, lastLogin, tokenTtl>>
    /\ UNCHANGED storeVars

LiveCalls == RaceCalls \cup {<<"rewrap", <<Sealed>> >>, <<"healthCheck", <<>> >>}

NextLive ==
    \/ \E k \in LiveCalls : Call("c1", k[1], k[2])
    \/ \E ok \in BOOLEAN : LoginResponse("c1", ok)
    \/ \E ok \in BOOLEAN : CryptoResponse("c1", ok)
    \/ \E out \in HealthOutcomes : HealthResponse("c1", out)
    \/ Return("c1")
    \/ Tick
    \/ Drop("c1")

\* A request that is answered is delivered, and a call that is over returns
SpecLive ==
    /\ Init /\ [][NextLive]_vars
    /\ WF_vars(\E ok \in BOOLEAN : LoginResponse("c1", ok))
    /\ WF_vars(\E ok \in BOOLEAN : CryptoResponse("c1", ok))
    /\ WF_vars(\E out \in HealthOutcomes : HealthResponse("c1", out))
    /\ WF_vars(Return("c1"))
    /\ WF_vars(Tick)

----------------------------------------------------------------------------
(* Properties of the session under concurrent callers *)

CryptoKinds == {"encrypt", "decrypt", "rewrap"}
RoleAuthenticated == client.configured /\ client.tokenExpiry.k # "inf"

\* C3: every crypto request a role-authenticated session has sent carried a
\* token that the engine did not hold expired at the instant it was sent.
C3_NoExpiredCredentialSent ==
    \A c \in Callers :
        (RoleAuthenticated /\ pc[c] = "crypto" /\ wire[c].kind \in CryptoKinds)
            => ~wire[c].stale

CredentialAbsentOrExpired ==
    client.token.kind = "none" \/ (client.tokenExpiry.k = "num" /\ now >= client.tokenExpiry.v)

LoginSucceeds(c) == pc[c] = "login" /\ pc'[c] \in {"crypto", "done"}
LoginFails(c) == pc[c] = "login" /\ pc'[c] = "failed"

\* C5: only a successful login response changes the session; a failed renewal
\* makes its call fail with nothing but the login request sent; and a crypto
\* call started while the credential is absent or expired starts a renewal.
C5_FailedRenewalKeepsSession ==
    [][/\ client' # client => \E c \in Callers : LoginSucceeds(c)
       /\ \A c \in Callers :
            LoginFails(c) =>
                /\ client'.token = client.token /\ client'.tokenExpiry = client.tokenExpiry
                /\ sent'[c] = <<"login">> /\ wire'[c] = NoWire
       /\ \A c \in Callers :
            (pc[c] = "idle" /\ pc'[c] # "idle" /\ RoleAuthenticated
                /\ CallsEnsureToken(op'[c]) /\ CredentialAbsentOrExpired)
                => pc'[c] = "login" /\ sent'[c] = <<"login">>]_vars

\* C5 witness: a call failed on its renewal, the session still holds the
\* expired token, and the next call is renewing again.
C5_Witness ==
    \E c, d \in Callers :
        /\ pc[c] = "failed" /\ sent[c] = <<"login">>
        /\ client.token.kind = "lease" /\ CredentialAbsentOrExpired
        /\ pc[d] = "login"

----------------------------------------------------------------------------
(* Properties of the client's methods *)

\* No static token and no usable role id and role secret
Unconfigured ==
    /\ client.tokenExpiry.k # "inf"
    /\ (client.roleId \in {"", "placeholder"} \/ client.secretId \in {"", "placeholder"})

\* C6: in an unconfigured session a call of encrypt, decrypt, encryptBatch or
\* decryptBatch has returned its input unchanged, without any request.
C6_DegradedPassthrough ==
    \A c \in Callers :
        (Unconfigured /\ op[c] \in {"encrypt", "decrypt", "encryptBatch", "decryptBatch"})
            => pc[c] = "done" /\ res[c] = arg[c] /\ sent[c] = <<>>

\* C6 witness: an unconfigured decryptBatch of an envelope and a plaintext
\* has returned both as they were, after time has passed.
C6_Witness ==
    /\ Unconfigured /\ now > 0
    /\ op["c1"] = "decryptBatch" /\ arg["c1"] = <<Sealed, Alice>>
    /\ pc["c1"] = "done" /\ res["c1"] = <<Sealed, Alice>>

\* C8: in an unconfigured session no request is sent to the engine.
C8_NoRequestWhenUnconfigured ==
    \A c \in Callers : Unconfigured => sent[c] = <<>> /\ wire[c] = NoWire

\* C9: decrypt of a string without the marker returns that string, whatever
\* the state of the session.
C9_DecryptPassthrough ==
    \A c \in Callers :
        (op[c] = "decrypt" /\ arg[c][1].t = "str" /\ ~arg[c][1].pre
            /\ pc[c] \in {"done", "failed"})
            => pc[c] = "done" /\ res[c] = arg[c]

\* C10: decryptBatch of a list without an envelope entry, and encryptBatch
\* of the empty list, send no request.
C10_EmptyBatchNoNetwork ==
    \A c \in Callers :
        \/ op[c] = "decryptBatch" /\ \A i \in 1..Len(arg[c]) : ~StartsWithVault(arg[c][i])
        \/ op[c] = "encryptBatch" /\ arg[c] = <<>>
        => sent[c] = <<>>

\* C24: in a role-authenticated session a method that calls _ensureToken sends
\* a login exactly when it starts with no token or at or after the stored
\* expiry; and a login that succeeds stores the token of its response and the
\* expiry now + lease_duration - 300, after one login request of the call.
C24_RenewalExactlyWhenDue ==
    [][\A c \in Callers :
          /\ (pc[c] = "idle" /\ pc'[c] # "idle" /\ RoleAuthenticated
                /\ CallsEnsureToken(op'[c]))
                => /\ pc'[c] = "login" <=> CredentialAbsentOrExpired
                   /\ (\E i \in 1..Len(sent'[c]) : sent'[c][i] = "login")
                        <=> CredentialAbsentOrExpired
          /\ LoginSucceeds(c)
                => /\ client'.token = wire[c].grant.token
                   /\ client'.tokenExpiry = ExpiryAt(now + wire[c].grant.ttl - 300)
                   /\ Len(SelectSeq(sent'[c], LAMBDA k : k = "login")) = 1
      ]_vars

\* C24 witness: a role-authenticated session that logged in earlier has sent
\* an encrypt request at a later instant, before the stored expiry, without a
\* login.
C24_Witness ==
    /\ RoleAuthenticated /\ client.token.kind = "lease"
    /\ now > lastLogin.at /\ now < client.tokenExpiry.v
    /\ op["c1"] = "encrypt" /\ pc["c1"] = "crypto" /\ sent["c1"] = <<"encrypt">>

\* C23: a session that holds the static token holds it with the expiry
\* Infinity for good: no login request has been sent or answered, and no lease
\* was issued, whatever role id and role secret the environment also gave.
C23_StaticSessionNeverLogsIn ==
    (client.token.kind = "static" \/ client.tokenExpiry.k = "inf") =>
        /\ client.configured
        /\ client.token = StaticToken /\ client.tokenExpiry = ExpiryInfinity
        /\ leases = <<>> /\ lastLogin = NoLogin
        /\ \A c \in Callers :
                pc[c] # "login" /\ \A i \in 1..Len(sent[c]) : sent[c][i] # "login"

\* C23 witness: a session built with a static token and the role's id and
\* secret has, after time has passed, sent a rewrap request with the static
\* token.
C23_Witness ==
    /\ client.token = StaticToken
    /\ client.roleId = EngineRoleId /\ client.secretId = EngineSecretId
    /\ now > 0
    /\ op["c1"] = "rewrap" /\ pc["c1"] = "crypto" /\ sent["c1"] = <<"rewrap">>
    /\ wire["c1"].tok = StaticToken

----------------------------------------------------------------------------
(* Properties of the record store *)

\* C1: with a configured session, a save that succeeds stores every PII field
\* that was submitted as a non-empty string as an envelope and never as the
\* submitted string; a save whose encryption failed stores nothing.
C1_SavePersistsCiphertext ==
    [][ \A c \in Tasks :
          ((job[c].kind = "save" \/ job[c].kind = "write") /\ job'[c].kind = "held"
                /\ client.configured) =>
              /\ job[c].kind = "save" => db' = db
              /\ db' # db =>
                    \A k \in 1..Len(UserPII) :
                        LET v == job[c].was[UserPII[k]]
                            w == db'[Len(db')][UserPII[k]]
                        IN (Truthy(v) /\ IsString(v)) => IsEnvelope(w) /\ w # v
      ]_vars

\* C2: only a full envelope counts as ciphertext: every request to decrypt or
\* to rewrap carries envelopes only, the pre-save hook encrypts every
\* non-empty string that is not an envelope, and the rewrap job rewraps
\* envelopes only.
C2_OnlyEnvelopesAreCiphertext ==
    \A c \in Tasks :
        /\ (pc[c] = "crypto" /\ wire[c].kind \in {"decrypt", "rewrap"}) =>
                \A i \in 1..Len(wire[c].body) : IsEnvelope(wire[c].body[i])
        /\ job[c].kind = "save" =>
                \A k \in 1..Len(UserPII) :
                    LET v == job[c].doc[UserPII[k]]
                    IN (Truthy(v) /\ IsString(v) /\ ~IsEnvelope(v)) =>
                            \E i \in 1..Len(job[c].names) : job[c].names[i] = UserPII[k]
        /\ (job[c].kind = "rewrapDoc" /\ op[c] = "rewrap") =>
                \A i \in 1..Len(arg[c]) : IsEnvelope(arg[c][i])

\* C7: in an unconfigured session a rewrap that is over has returned its
\* argument, and a run of rewrapCollection never fails.
C7_UnconfiguredRewrapPassthrough ==
    Unconfigured =>
        /\ \A c \in Tasks :
              (op[c] = "rewrap" /\ pc[c] \in {"done", "failed"}) =>
                    pc[c] = "done" /\ res[c] = arg[c]
        /\ run.st # "failed"

----------------------------------------------------------------------------
(* Properties of the batch methods *)

\* The envelope entries of a list, in order
EnvelopesOf(a) == SelectSeq(a, IsEnvelope)

\* C11: a decryptBatch that succeeds in a configured session returns, at each
\* position, the input when it is no envelope and its plaintext when it is;
\* its one request carries the envelope entries and nothing else; and
\* decryptBatch(encryptBatch(xs)) returns xs.
C11_DecryptBatchScatter ==
    \A c \in Callers :
        /\ (client.configured /\ op[c] = "decryptBatch" /\ pc[c] = "done") =>
                /\ Len(res[c]) = Len(arg[c])
                /\ \A i \in 1..Len(arg[c]) :
                        res[c][i] = IF IsEnvelope(arg[c][i]) THEN arg[c][i].pt ELSE arg[c][i]
        /\ (op[c] = "decryptBatch" /\ pc[c] = "crypto") =>
                wire[c].body = EnvelopesOf(arg[c])
        /\ op[c] = "decryptBatch" =>
                Len(SelectSeq(sent[c], LAMBDA k : k = "decrypt")) <= 1
        /\ (job[c].kind = "roundtrip" /\ job[c].phase = "decrypt" /\ pc[c] = "done") =>
                res[c] = job[c].xs

\* The positions of a decryptBatch input whose item the engine refuses
Refused(a) == {i \in 1..Len(a) : IsVaultEntry(a[i]) /\ EngineDecryptItem(a[i]) = ErrItem}

\* C12: when an item of a batch fails at the engine, what the caller gets
\* names the position of the failed input and keeps the results of the other
\* items.
C12_BatchItemFailureAttributed ==
    \A c \in Callers :
        (op[c] = "decryptBatch" /\ pc[c] = "failed" /\ res[c] # <<>>) =>
            LET e == res[c][1]
            IN /\ "index" \in DOMAIN e
               /\ e.index \in Refused(arg[c])
               /\ "results" \in DOMAIN e
               /\ \A i \in (1..Len(arg[c])) \ Refused(arg[c]) :
                        e.results[i] = IF IsEnvelope(arg[c][i]) THEN arg[c][i].pt
                                       ELSE arg[c][i]

\* C22: in a configured session, a decrypt of what encrypt returned for a
\* string returns that string, whether or not the key was rotated in between.
C22_EncryptDecryptRoundTrip ==
    \A c \in Callers :
        (client.configured /\ job[c].kind = "roundtrip" /\ job[c].phase = "decryptOne"
            /\ pc[c] = "done")
            => res[c] = job[c].xs

----------------------------------------------------------------------------
(* Properties of the hooks *)

\* C13: when encryptPII or decryptPII has thrown, the document the caller holds
\* is the document the hook was given: no field of it was replaced.
C13_FailedHookLeavesRecord ==
    \A c \in Tasks : (job[c].kind = "held" /\ ~job[c].ok) => job[c].doc = job[c].was

\* C13 witness: a hook that had fields to replace has thrown.
C13_Witness ==
    /\ job["c1"].kind = "held" /\ ~job["c1"].ok
    /\ ToEncrypt(job["c1"].was, UserPII) = UserPII
    /\ client.configured

----------------------------------------------------------------------------
(* Properties of the Google sign-in *)

\* The e-mail address a stored value stands for
PlainOf(v) == IF IsEnvelope(v) THEN v.pt ELSE v

\* C30: a Google sign-in that goes on to create an account found no account
\* with its e-mail address because there is none, whether the store holds the
\* address as plaintext or, in a configured session, as an envelope; and a
\* sign-in answered 409 found one.
C30_GoogleEmailConflictRejected ==
    \A c \in Callers :
        /\ job[c].kind = "google" =>
                \A id \in 1..Len(db) :
                    (client.configured \/ ~IsEnvelope(db[id].email))
                        => PlainOf(db[id].email) # job[c].email
        /\ (job[c].kind = "answered" /\ job[c].status = 409) =>
                \E id \in 1..Len(db) : PlainOf(db[id].email) = job[c].email

----------------------------------------------------------------------------
(* Properties of the rewrap job *)

\* C14: a run started after a run that reached Done, with the key version
\* still the one the earlier run started with and no writer but the job, calls
\* doc.save() for no document.
C14_SecondRunSavesNothing ==
    (run.n >= 2 /\ run.prev.st = "done" /\ run.prev.kv = keyVersion) => run.saves = 0

\* C15: in a configured session the failure of one document, in its rewrap or
\* in its save, never fails the run: tasks that failed are passed over and the
\* run goes on.
C15_RecordFailureDoesNotAbort ==
    client.configured =>
        /\ run.st # "failed"
        /\ \A c \in DocTasks :
              IF job[c] = NoJob THEN TRUE ELSE job[c].phase # "killed"

\* C16: the number a finished run returns is the number of documents the
\* store has written for it.
C16_CountIsRewrapped ==
    run.st = "done" => run.processed = run.persisted

\* C17: once a run is done and the key version is still the one the run
\* started with, every envelope in a PII field of the store is of that version,
\* and every field that held an envelope when the run started holds an envelope
\* of the same plaintext.
C17_DoneMeansNewestVersion ==
    (run.st = "done" /\ run.kv = keyVersion) =>
        \A id \in 1..Len(db) : \A k \in 1..Len(UserPII) :
            LET v == db[id][UserPII[k]]
            IN /\ IsEnvelope(v) => v.ver = keyVersion
               /\ (id <= Len(run.snap) /\ IsEnvelope(run.snap[id][UserPII[k]])) =>
                        IsEnvelope(v) /\ v.pt = run.snap[id][UserPII[k]].pt

\* C26: a run whose cursor is exhausted comes to Done, and a run that is Done
\* has handed every document of the store to _rewrapBatch exactly once, in the
\* order of the cursor, those of a last smaller batch included.
C26_RunReachesDoneEachRecordOnce ==
    /\ [](run.st = "done" => run.handed = [i \in 1..Len(db) |-> i])
    /\ \A n \in 1..MaxRuns :
            (run.n = n /\ run.last) ~> (run.n = n /\ run.st = "done")

\* A document task that is rewrapping a field, running the pre-save hook or
\* waiting for the store
Active(c) == job[c].kind = "rewrapDoc" /\ job[c].phase \in {"rewrap", "save", "write"}

\* C27: while a run with batch size B goes on, the batch holds at most B
\* documents, at most B document tasks are under way, and the cursor is read
\* only when no document task is under way.
C27_BatchBoundsMemoryAndConcurrency ==
    run.st \in {"scanning", "launch", "batch"} =>
        /\ run.size >= 1
        /\ Len(run.batch) <= run.size
        /\ Cardinality({c \in DocTasks : Active(c)}) <= run.size
        /\ run.st = "scanning" => \A c \in DocTasks : ~Active(c)

\* C27 witness: a run with batch size 1 over two documents has finished the
\* first and is rewrapping the second.
C27_Witness ==
    /\ run.st = "batch" /\ run.size = 1 /\ run.pos = 2 /\ run.processed = 1
    /\ Active("d1") /\ ~Active("d2")

\* The document of a task as the cursor read it
AsRead(c) == run.batch[CHOOSE k \in 1..Len(run.batch) : run.batch[k].id = job[c].id].doc

\* C29: a document task that has called doc.save() has rewrapped every field
\* that held an envelope when the document was read, each to an envelope of
\* the same plaintext under a key version not older than the one the run
\* started with; and of the envelopes a record had below that version when
\* the run started, the store never holds some moved and some not.
C29_SaveOnlyAfterAllFieldsRewrapped ==
    /\ \A c \in DocTasks :
            (job[c].kind = "rewrapDoc" /\ job[c].phase \in {"save", "write"}) =>
                \A k \in 1..Len(UserPII) :
                    LET f == UserPII[k]
                    IN IsEnvelope(AsRead(c)[f]) =>
                            /\ f \in job[c].touched
                            /\ IsEnvelope(job[c].doc[f])
                            /\ job[c].doc[f].pt = AsRead(c)[f].pt
                            /\ job[c].doc[f].ver >= run.kv
    /\ \A id \in 1..Len(run.snap) : \A k, l \in 1..Len(UserPII) :
            LET f == UserPII[k]
                g == UserPII[l]
                Stale(v) == IsEnvelope(v) /\ v.ver < run.kv
            IN (Stale(run.snap[id][f]) /\ Stale(run.snap[id][g])) =>
                    (Stale(db[id][f]) <=> Stale(db[id][g]))

\* C29 witness: after a rotation a batch of two records was rewrapped; the
\* task of the second failed and the run with it, the first record was saved
\* with both fields moved and the second is as it was.
C29_Witness ==
    /\ run.st = "failed" /\ run.kv = 2 /\ run.snap = <<Old, Old>>
    /\ db = <<Doc(Env(2, Mail), Env(2, Alice)), Old>>
    /\ job["d2"].kind = "rewrapDoc" /\ job["d2"].phase = "failed"

----------------------------------------------------------------------------
(* Properties of the health probe *)

\* C20: a healthCheck that is over has not thrown: it has returned a status,
\* with sealed and version when ok, with an error text when not ok.
C20_HealthCheckNeverRaises ==
    \A c \in Callers :
        (op[c] = "healthCheck" /\ pc[c] \in {"done", "failed"}) =>
            /\ pc[c] = "done"
            /\ Len(res[c]) = 1 /\ res[c][1].t = "health"
            /\ IF res[c][1].ok
               THEN {"sealed", "version"} \subseteq DOMAIN res[c][1] /\ ~rejected[c]
               ELSE "error" \in DOMAIN res[c][1]

\* C20 witness: a healthCheck whose request was answered by a 200 with a null
\* body has returned a status that is not ok.
C20_Witness ==
    /\ op["c1"] = "healthCheck" /\ pc["c1"] = "done"
    /\ ~res["c1"][1].ok /\ ~rejected["c1"]

----------------------------------------------------------------------------
(* Properties of the network calls *)

\* C19: every call that has sent a request comes to an end, with a result or
\* an error, also when the engine never answers.
C19_EveryCallTerminates ==
    \A c \in Callers :
        (pc[c] \in {"login", "crypto", "hung"}) ~> (pc[c] \in {"done", "failed"})

----------------------------------------------------------------------------
(* Properties of encryptPII and decryptPII *)

\* A non-empty string that does not carry the marker
PlainText(v) == v.t = "str" /\ ~v.pre /\ v.body # ""

\* A non-empty string
NonEmptyString(v) == v.t = "env" \/ (v.t = "str" /\ (v.pre \/ v.body # ""))

Named(f, fields) == \E i \in 1..Len(fields) : fields[i] = f

\* C21: in a configured session whose calls all returned, a second and any
\* later encryptPII of the same object leaves the object as the call before
\* left it and sends no encrypt request.
C21_EncryptFieldsIdempotent ==
    \A c \in Callers :
        (job[c].kind = "applied" /\ job[c].method = "encryptPII" /\ job[c].round >= 2
            /\ job[c].allOk /\ client.configured)
            => job[c].doc = job[c].was /\ job[c].reqs = <<>>

\* C21 witness: the first encryptPII encrypted a field and the second has
\* returned.
C21_Witness ==
    /\ job["c1"].kind = "applied" /\ job["c1"].method = "encryptPII"
    /\ job["c1"].round = 2 /\ job["c1"].allOk /\ client.configured
    /\ job["c1"].fields = UserPII
    /\ job["c1"].orig = Doc(Alice, Hello)
    /\ job["c1"].doc = Doc(Env(1, Alice), Hello)

\* C25: whatever the session and however the call ends, encryptPII leaves
\* every field that is not named, and every named field that does not hold a
\* non-empty string without the marker, as it was.
C25_EncryptFieldsFrame ==
    \A c \in Callers :
        (job[c].kind = "applied" /\ job[c].method = "encryptPII") =>
            \A f \in DOMAIN job[c].was :
                (~Named(f, job[c].fields) \/ ~PlainText(job[c].was[f]))
                    => job[c].doc[f] = job[c].was[f]

\* C25 witness: a call that named both fields replaced the plaintext in one and
\* found a number in the other.
C25_Witness ==
    /\ job["c1"].kind = "applied" /\ job["c1"].method = "encryptPII" /\ job["c1"].ok
    /\ job["c1"].fields = UserPII
    /\ job["c1"].was = Doc(Num(42), Alice)
    /\ IsEnvelope(job["c1"].doc.fullName)

\* C28: one call of encryptPII or decryptPII sends at most one request to
\* transit/encrypt or transit/decrypt, and none when no named field holds a
\* value the function collects (a non-empty string without the marker for
\* encryptPII, a non-empty string for decryptPII).
C28_OneRequestPerRecord ==
    \A c \in Callers :
        /\ job[c].kind = "codec" =>
                Len(job[c].reqs \o CodecRequests(sent[c])) <= 1
        /\ job[c].kind = "applied" =>
                /\ Len(job[c].reqs) <= 1
                /\ (\A f \in DOMAIN job[c].was :
                        Named(f, job[c].fields) =>
                            IF job[c].method = "encryptPII"
                            THEN ~PlainText(job[c].was[f])
                            ELSE ~NonEmptyString(job[c].was[f]))
                    => job[c].reqs = <<>>

\* C28 witness: a decryptPII that named two fields, both holding envelopes, has
\* returned after one decrypt request.
C28_Witness ==
    /\ job["c1"].kind = "applied" /\ job["c1"].method = "decryptPII" /\ job["c1"].ok
    /\ job["c1"].fields = UserPII
    /\ job["c1"].was = Doc(Sealed, Sealed)
    /\ job["c1"].doc = Doc(Alice, Alice)
    /\ job["c1"].reqs = <<"decrypt">>

====
